---------------------------- MODULE Spec2Model ----------------------------
(***************************************************************************)
(* A model of cve_workflow.py: the interactive CVE intake run (date        *)
(* prompt, component list, sequential fetch loop, relevance filter,        *)
(* description cleaning, flattening and cell merging).                     *)
(*                                                                         *)
(* A Python str is a sequence of one-character strings.  A decoded JSON    *)
(* value is a record [t, v]: t is its Python type after json.loads and v   *)
(* its content.  An operation that can raise returns a record with the     *)
(* field exc naming the exception ("" when it returned normally).          *)
(***************************************************************************)
EXTENDS Integers, Sequences, FiniteSets, TLC

VARIABLES
    pc,             \* position of main()
    start_date,     \* main: start_date (str)
    end_date,       \* main: end_date (str)
    components,     \* main: components, a list of {'name', 'search_terms'}
    idx,            \* main: 1-based position of the for loop over components
    server,         \* the request in flight: "none" | "answers" | "silent"
    requests,       \* the 'keyword' parameter of every GET issued so far
    all_results,    \* main: all_results
    log,            \* the per-component lines main printed (lines 496, 498)
    processed_data, \* main: processed_data
    rows,           \* convert_to_excel: rows (column A..D of the sheet)
    merges,         \* the worksheet's merged ranges of column A, in call order
    err,            \* the exception that ended the run unhandled, "" if none
    input,          \* argument(s) of the function applied on its own
    output          \* the values that function returned so far

vars == <<pc, start_date, end_date, components, idx, server, requests,
          all_results, log, processed_data, rows, merges, err, input, output>>

-----------------------------------------------------------------------------
(* Python str operations *)

UpperCase == <<"A", "B", "C", "D", "E", "F", "G", "H", "I", "J", "K", "L", "M",
               "N", "O", "P", "Q", "R", "S", "T", "U", "V", "W", "X", "Y", "Z">>

LowerCase == <<"a", "b", "c", "d", "e", "f", "g", "h", "i", "j", "k", "l", "m",
               "n", "o", "p", "q", "r", "s", "t", "u", "v", "w", "x", "y", "z">>

Digits == <<"0", "1", "2", "3", "4", "5", "6", "7", "8", "9">>

Range(s) == {s[i] : i \in DOMAIN s}

\* str.lower() of one character
LowerChar(c) ==
    IF \E i \in DOMAIN UpperCase : UpperCase[i] = c
    THEN LowerCase[CHOOSE i \in DOMAIN UpperCase : UpperCase[i] = c]
    ELSE c

\* str.lower()
Lower(s) == [i \in DOMAIN s |-> LowerChar(s[i])]

\* the characters the regex class \w matches
IsWordChar(c) == c \in Range(UpperCase) \cup Range(LowerCase) \cup Range(Digits) \cup {"_"}

\* the characters the regex class \s matches and str.strip() removes
IsSpace(c) == c \in {" ", "\t", "\n", "\r"}

\* position of the first occurrence of c in s, 0 if there is none
IndexOf(s, c) ==
    IF \E i \in DOMAIN s : s[i] = c
    THEN CHOOSE i \in DOMAIN s : s[i] = c /\ \A j \in 1..(i - 1) : s[j] # c
    ELSE 0

RECURSIVE LStrip(_)
LStrip(s) == IF s # <<>> /\ IsSpace(Head(s)) THEN LStrip(Tail(s)) ELSE s

RECURSIVE RStrip(_)
RStrip(s) ==
    IF s # <<>> /\ IsSpace(s[Len(s)]) THEN RStrip(SubSeq(s, 1, Len(s) - 1)) ELSE s

\* str.strip()
Strip(s) == RStrip(LStrip(s))

\* str.split(sep) for a one-character separator: always at least one piece
RECURSIVE Split(_, _)
Split(s, sep) ==
    IF IndexOf(s, sep) = 0
    THEN <<s>>
    ELSE <<SubSeq(s, 1, IndexOf(s, sep) - 1)>>
         \o Split(SubSeq(s, IndexOf(s, sep) + 1, Len(s)), sep)

\* ' '.join(parts)
RECURSIVE JoinSpace(_)
JoinSpace(parts) ==
    IF parts = <<>> THEN <<>>
    ELSE IF Len(parts) = 1 THEN parts[1]
    ELSE parts[1] \o <<" ">> \o JoinSpace(Tail(parts))

-----------------------------------------------------------------------------
(* is_valid_component_match *)

IsWordAt(text, p) == p \in DOMAIN text /\ IsWordChar(text[p])

\* the regex assertion \b just before position p of text (p in 1..Len+1)
WordBoundary(text, p) == IsWordAt(text, p - 1) # IsWordAt(text, p)

\* re.search(r'\b' + re.escape(word) + r'\b', text)
SearchWord(text, word) ==
    \E i \in 1..(Len(text) - Len(word) + 1) :
        /\ SubSeq(text, i, i + Len(word) - 1) = word
        /\ WordBoundary(text, i)
        /\ WordBoundary(text, i + Len(word))

is_valid_component_match(text, component_name) ==
    SearchWord(Lower(text), Lower(component_name))

-----------------------------------------------------------------------------
(* get_component_aliases *)

alias_map ==
    <<  <<<<"p", "o", "i">>, <<<<"a", "p", "a", "c", "h", "e", " ", "p", "o", "i">>, <<"p", "o", "i", " ", "l", "i", "b", "r", "a", "r", "y">>>> >>,
        <<<<"l", "o", "g", "4", "j">>, <<<<"a", "p", "a", "c", "h", "e", " ", "l", "o", "g", "4", "j">>, <<"l", "o", "g", "4", "j", "2">>>> >>,
        <<<<"s", "p", "r", "i", "n", "g">>, <<<<"s", "p", "r", "i", "n", "g", " ", "f", "r", "a", "m", "e", "w", "o", "r", "k">>, <<"s", "p", "r", "i", "n", "g", "f", "r", "a", "m", "e", "w", "o", "r", "k">>>> >>,
        <<<<"s", "t", "r", "u", "t", "s">>, <<<<"a", "p", "a", "c", "h", "e", " ", "s", "t", "r", "u", "t", "s">>, <<"s", "t", "r", "u", "t", "s", "2">>>> >>,
        <<<<"j", "a", "c", "k", "s", "o", "n">>, <<<<"j", "a", "c", "k", "s", "o", "n", "-", "d", "a", "t", "a", "b", "i", "n", "d">>, <<"f", "a", "s", "t", "e", "r", "x", "m", "l", " ", "j", "a", "c", "k", "s", "o", "n">>>> >>,
        <<<<"g", "s", "o", "n">>, <<<<"g", "o", "o", "g", "l", "e", " ", "g", "s", "o", "n">>>> >>,
        <<<<"f", "a", "s", "t", "j", "s", "o", "n">>, <<<<"a", "l", "i", "b", "a", "b", "a", " ", "f", "a", "s", "t", "j", "s", "o", "n">>>> >>,
        <<<<"m", "y", "s", "q", "l">>, <<<<"m", "y", "s", "q", "l", " ", "c", "o", "n", "n", "e", "c", "t", "o", "r">>, <<"m", "y", "s", "q", "l", "-", "c", "o", "n", "n", "e", "c", "t", "o", "r">>>> >>,
        <<<<"r", "e", "d", "i", "s">>, <<<<"r", "e", "d", "i", "s", " ", "s", "e", "r", "v", "e", "r">>>> >>,
        <<<<"n", "g", "i", "n", "x">>, <<<<"n", "g", "i", "n", "x", " ", "s", "e", "r", "v", "e", "r">>>> >>,
        <<<<"a", "p", "a", "c", "h", "e">>, <<<<"a", "p", "a", "c", "h", "e", " ", "h", "t", "t", "p", "d">>, <<"a", "p", "a", "c", "h", "e", " ", "s", "e", "r", "v", "e", "r">>>> >>,
        <<<<"t", "o", "m", "c", "a", "t">>, <<<<"a", "p", "a", "c", "h", "e", " ", "t", "o", "m", "c", "a", "t">>>> >>,
        <<<<"e", "l", "a", "s", "t", "i", "c", "s", "e", "a", "r", "c", "h">>, <<<<"e", "l", "a", "s", "t", "i", "c", " ", "e", "l", "a", "s", "t", "i", "c", "s", "e", "a", "r", "c", "h">>>> >>,
        <<<<"k", "i", "b", "a", "n", "a">>, <<<<"e", "l", "a", "s", "t", "i", "c", " ", "k", "i", "b", "a", "n", "a">>>> >>,
        <<<<"m", "o", "n", "g", "o", "d", "b">>, <<<<"m", "o", "n", "g", "o", " ", "d", "a", "t", "a", "b", "a", "s", "e">>>> >>,
        <<<<"p", "o", "s", "t", "g", "r", "e", "s", "q", "l">>, <<<<"p", "o", "s", "t", "g", "r", "e", "s">>, <<"p", "o", "s", "t", "g", "r", "e", "s", "q", "l", " ", "d", "a", "t", "a", "b", "a", "s", "e">>>> >>,
        <<<<"n", "o", "d", "e">>, <<<<"n", "o", "d", "e", ".", "j", "s">>, <<"n", "o", "d", "e", "j", "s">>>> >>,
        <<<<"r", "e", "a", "c", "t">>, <<<<"r", "e", "a", "c", "t", ".", "j", "s">>, <<"r", "e", "a", "c", "t", "j", "s">>>> >>,
        <<<<"v", "u", "e">>, <<<<"v", "u", "e", ".", "j", "s">>, <<"v", "u", "e", "j", "s">>>> >>,
        <<<<"a", "n", "g", "u", "l", "a", "r">>, <<<<"a", "n", "g", "u", "l", "a", "r", ".", "j", "s">>, <<"a", "n", "g", "u", "l", "a", "r", "j", "s">>>> >>,
        <<<<"j", "q", "u", "e", "r", "y">>, <<<<"j", "q", "u", "e", "r", "y", " ", "l", "i", "b", "r", "a", "r", "y">>>> >>,
        <<<<"b", "o", "o", "t", "s", "t", "r", "a", "p">>, <<<<"b", "o", "o", "t", "s", "t", "r", "a", "p", " ", "f", "r", "a", "m", "e", "w", "o", "r", "k">>>> >>,
        <<<<"d", "j", "a", "n", "g", "o">>, <<<<"d", "j", "a", "n", "g", "o", " ", "f", "r", "a", "m", "e", "w", "o", "r", "k">>>> >>,
        <<<<"f", "l", "a", "s", "k">>, <<<<"f", "l", "a", "s", "k", " ", "f", "r", "a", "m", "e", "w", "o", "r", "k">>>> >>,
        <<<<"e", "x", "p", "r", "e", "s", "s">>, <<<<"e", "x", "p", "r", "e", "s", "s", ".", "j", "s">>, <<"e", "x", "p", "r", "e", "s", "s", "j", "s">>>> >>,
        <<<<"l", "a", "r", "a", "v", "e", "l">>, <<<<"l", "a", "r", "a", "v", "e", "l", " ", "f", "r", "a", "m", "e", "w", "o", "r", "k">>>> >>,
        <<<<"s", "y", "m", "f", "o", "n", "y">>, <<<<"s", "y", "m", "f", "o", "n", "y", " ", "f", "r", "a", "m", "e", "w", "o", "r", "k">>>> >>,
        <<<<"w", "o", "r", "d", "p", "r", "e", "s", "s">>, <<<<"w", "o", "r", "d", "p", "r", "e", "s", "s", " ", "c", "m", "s">>>> >>,
        <<<<"d", "r", "u", "p", "a", "l">>, <<<<"d", "r", "u", "p", "a", "l", " ", "c", "m", "s">>>> >>,
        <<<<"j", "o", "o", "m", "l", "a">>, <<<<"j", "o", "o", "m", "l", "a", " ", "c", "m", "s">>>> >>  >>

\* alias_map.get(key, [])
AliasLookup(key) ==
    IF \E i \in DOMAIN alias_map : alias_map[i][1] = key
    THEN alias_map[CHOOSE i \in DOMAIN alias_map : alias_map[i][1] = key][2]
    ELSE <<>>

get_component_aliases(component_name) ==
    <<component_name>> \o AliasLookup(Lower(component_name))

-----------------------------------------------------------------------------
(* clean_html_tags, clean_description *)

\* the end of the shortest match of '<.*?>' starting at s[1] = '<', 0 if none:
\* '.' does not match a newline, so the first '>' counts only when no newline
\* comes before it
TagEnd(s) ==
    IF /\ IndexOf(s, ">") > 0
       /\ \A j \in 2..(IndexOf(s, ">") - 1) : s[j] # "\n"
    THEN IndexOf(s, ">")
    ELSE 0

\* re.sub('<.*?>', '', text): leftmost, non-overlapping, non-greedy
RECURSIVE clean_html_tags(_)
clean_html_tags(text) ==
    IF text = <<>> THEN <<>>
    ELSE IF Head(text) = "<" /\ TagEnd(text) > 0
         THEN clean_html_tags(SubSeq(text, TagEnd(text) + 1, Len(text)))
         ELSE <<Head(text)>> \o clean_html_tags(Tail(text))

\* re.sub(r'\s+', ' ', text)
RECURSIVE CollapseSpace(_)
CollapseSpace(text) ==
    IF text = <<>> THEN <<>>
    ELSE IF IsSpace(Head(text))
         THEN <<" ">> \o CollapseSpace(LStrip(text))
         ELSE <<Head(text)>> \o CollapseSpace(Tail(text))

clean_description(text) == Strip(CollapseSpace(clean_html_tags(text)))

-----------------------------------------------------------------------------
(* Decoded JSON values, with the Python operations the code applies to them *)

JStr(s) == [t |-> "str", v |-> s]
JNum(n) == [t |-> "num", v |-> n]
JNull == [t |-> "null", v |-> <<>>]
JList(items) == [t |-> "list", v |-> items]
\* a dict: its (key, value) pairs in insertion order, keys distinct
JObj(pairs) == [t |-> "obj", v |-> pairs]

K_component == <<"c", "o", "m", "p", "o", "n", "e", "n", "t">>
K_results == <<"r", "e", "s", "u", "l", "t", "s">>
K_id == <<"i", "d">>
K_published == <<"p", "u", "b", "l", "i", "s", "h", "e", "d">>
K_description == <<"d", "e", "s", "c", "r", "i", "p", "t", "i", "o", "n">>
K_references == <<"r", "e", "f", "e", "r", "e", "n", "c", "e", "s">>

\* bool(j)
Truthy(j) ==
    CASE j.t = "str" -> j.v # <<>>
      [] j.t = "num" -> j.v # 0
      [] j.t = "null" -> FALSE
      [] j.t = "list" -> j.v # <<>>
      [] j.t = "obj" -> j.v # <<>>

\* key in d
DictHas(d, key) == \E i \in DOMAIN d.v : d.v[i][1] = key

\* d[key], for a key that is present
DictItem(d, key) == d.v[CHOOSE i \in DOMAIN d.v : d.v[i][1] = key][2]

\* d.get(key, default)
DictGet(d, key, default) == IF DictHas(d, key) THEN DictItem(d, key) ELSE default

\* d[key] = value
DictSet(d, key, value) ==
    JObj(IF DictHas(d, key)
         THEN [i \in DOMAIN d.v |-> IF d.v[i][1] = key THEN <<key, value>> ELSE d.v[i]]
         ELSE Append(d.v, <<key, value>>))

\* what iterating j yields: the items of a list, the characters of a str,
\* the keys of a dict
Items(j) ==
    CASE j.t = "list" -> j.v
      [] j.t = "str" -> [i \in DOMAIN j.v |-> JStr(<<j.v[i]>>)]
      [] j.t = "obj" -> [i \in DOMAIN j.v |-> JStr(j.v[i][1])]

Returned(x) == [exc |-> "", val |-> x]
Raised(e) == [exc |-> e, val |-> <<>>]

-----------------------------------------------------------------------------
(* validate_cve_relevance *)

\* ' '.join(refs) for a truthy refs: a number is not iterable, and every item
\* must be a str
JoinReferences(refs) ==
    IF refs.t = "num" THEN Raised("TypeError")
    ELSE IF \E i \in DOMAIN Items(refs) : Items(refs)[i].t # "str"
         THEN Raised("TypeError")
         ELSE Returned(JStr(JoinSpace([i \in DOMAIN Items(refs) |-> Items(refs)[i].v])))

\* the two nested loops of lines 130-134 over the remaining fields
RECURSIVE CheckFields(_, _)
CheckFields(fields, all_names) ==
    IF fields = <<>> THEN Returned(FALSE)
    ELSE IF ~Truthy(Head(fields)) THEN CheckFields(Tail(fields), all_names)
    ELSE IF Head(fields).t # "str" THEN Raised("AttributeError")
    ELSE IF \E n \in DOMAIN all_names :
                is_valid_component_match(Head(fields).v, all_names[n])
         THEN Returned(TRUE)
         ELSE CheckFields(Tail(fields), all_names)

validate_cve_relevance(cve_data, component_name) ==
    IF cve_data.t # "obj" THEN Raised("AttributeError")
    ELSE LET description == DictGet(cve_data, K_description, JStr(<<>>))
             id == DictGet(cve_data, K_id, JStr(<<>>))
             refs == DictGet(cve_data, K_references, JList(<<>>))
             joined == IF Truthy(refs) THEN JoinReferences(refs)
                       ELSE Returned(JStr(<<>>))
         IN  IF joined.exc # "" THEN joined
             ELSE CheckFields(<<description, id, joined.val>>,
                              get_component_aliases(component_name))

-----------------------------------------------------------------------------
(* process_cve_data *)

\* published.split('T')[0]
DatePart(published) == Split(published, "T")[1]

\* lines 311-320 for one item of 'results': val is the list of entries to
\* append, empty when the item is filtered out
ProcessEntry(cve, component) ==
    LET relevant == validate_cve_relevance(cve, component)
    IN  IF relevant.exc # "" THEN relevant
        ELSE IF ~DictHas(cve, K_id) THEN Raised("KeyError")
        ELSE IF ~relevant.val THEN Returned(<<>>)
        ELSE IF ~DictHas(cve, K_published) THEN Raised("KeyError")
        ELSE IF DictItem(cve, K_published).t # "str" THEN Raised("AttributeError")
        ELSE IF ~DictHas(cve, K_description) THEN Raised("KeyError")
        ELSE IF DictItem(cve, K_description).t # "str" THEN Raised("TypeError")
        ELSE Returned(<< [id |-> DictItem(cve, K_id),
                          published |-> DatePart(DictItem(cve, K_published).v),
                          description |->
                              clean_description(DictItem(cve, K_description).v)] >>)

\* the inner loop of lines 309-320
RECURSIVE ProcessEntries(_, _)
ProcessEntries(cves, component) ==
    IF cves = <<>> THEN Returned(<<>>)
    ELSE LET first == ProcessEntry(Head(cves), component)
             rest == ProcessEntries(Tail(cves), component)
         IN  IF first.exc # "" THEN first
             ELSE IF rest.exc # "" THEN rest
             ELSE Returned(first.val \o rest.val)

\* lines 302-330 for one element of json_data: val is the list of results to
\* append, empty when no entry survives
ProcessComponent(component_data) ==
    LET component == DictItem(component_data, K_component).v
    IN  IF ~DictHas(component_data, K_results) THEN Raised("KeyError")
        ELSE IF DictItem(component_data, K_results).t \in {"num", "null"}
             THEN Raised("TypeError")
        ELSE LET cve_entries ==
                     ProcessEntries(Items(DictItem(component_data, K_results)), component)
             IN  IF cve_entries.exc # "" THEN cve_entries
                 ELSE IF cve_entries.val = <<>> THEN Returned(<<>>)
                 ELSE Returned(<< [component |-> component,
                                   entries |-> cve_entries.val] >>)

RECURSIVE process_cve_data(_)
process_cve_data(json_data) ==
    IF json_data = <<>> THEN Returned(<<>>)
    ELSE LET first == ProcessComponent(Head(json_data))
             rest == process_cve_data(Tail(json_data))
         IN  IF first.exc # "" THEN first
             ELSE IF rest.exc # "" THEN rest
             ELSE Returned(first.val \o rest.val)

-----------------------------------------------------------------------------
(* convert_to_excel: flattening, and merge_component_cells *)

\* lines 421-430
RECURSIVE FlattenRows(_)
FlattenRows(data) ==
    IF data = <<>> THEN <<>>
    ELSE [i \in DOMAIN Head(data).entries |->
              [component |-> Head(data).component,
               id |-> Head(data).entries[i].id,
               published |-> Head(data).entries[i].published,
               description |-> Head(data).entries[i].description]]
         \o FlattenRows(Tail(data))

\* the first worksheet row holding data: row 1 is the header
FirstDataRow == 2

\* ws.cell(row=row, column=1).value
CellA(sheet, row) == sheet[row - FirstDataRow + 1].component

\* the body of the for loop of lines 390-406 at `row`, then the rest of the
\* loop; st = [current, start_row, merged], current = <<>> standing for None
\* and <<name>> for a name
RECURSIVE MergeLoop(_, _, _, _)
MergeLoop(sheet, data_length, row, st) ==
    IF row > data_length + 1 THEN st
    ELSE LET component == CellA(sheet, row)
         IN  IF st.current = <<>>
             THEN MergeLoop(sheet, data_length, row + 1,
                            [st EXCEPT !.current = <<component>>, !.start_row = row])
             ELSE IF component # st.current[1] \/ row = data_length + 1
             THEN MergeLoop(sheet, data_length, row + 1,
                            [current |-> <<component>>,
                             start_row |-> row,
                             merged |-> IF st.start_row < row
                                        THEN Append(st.merged, <<st.start_row, row - 1>>)
                                        ELSE st.merged])
             ELSE MergeLoop(sheet, data_length, row + 1, st)

\* the merged ranges A{start}:A{end} of column A, in call order
merge_component_cells(sheet, data_length) ==
    LET st == MergeLoop(sheet, data_length, FirstDataRow,
                        [current |-> <<>>, start_row |-> FirstDataRow, merged |-> <<>>])
    IN  IF st.start_row < data_length + 1
        THEN Append(st.merged, <<st.start_row, data_length + 1>>)
        ELSE st.merged

-----------------------------------------------------------------------------
(* get_date_input: datetime.strptime(s, '%Y-%m-%d') *)

IsDigit(c) == c \in Range(Digits)

DigitVal(c) == (CHOOSE i \in DOMAIN Digits : Digits[i] = c) - 1

RECURSIVE NumVal(_)
NumVal(s) == IF s = <<>> THEN 0 ELSE NumVal(SubSeq(s, 1, Len(s) - 1)) * 10 + DigitVal(s[Len(s)])

AllDigits(s) == \A i \in DOMAIN s : IsDigit(s[i])

\* %Y: exactly four digits
YearField(s) == Len(s) = 4 /\ AllDigits(s)

\* %m: 1[0-2] | 0[1-9] | [1-9]
MonthField(s) == Len(s) \in {1, 2} /\ AllDigits(s) /\ NumVal(s) \in 1..12

\* %d: 3[01] | [12]\d | 0[1-9] | [1-9] | ' '[1-9]
DayField(s) ==
    \/ Len(s) \in {1, 2} /\ AllDigits(s) /\ NumVal(s) \in 1..31
    \/ Len(s) = 2 /\ s[1] = " " /\ IsDigit(s[2]) /\ DigitVal(s[2]) \in 1..9

DayVal(s) == IF s[1] = " " THEN DigitVal(s[2]) ELSE NumVal(s)

IsLeap(y) == (y % 4 = 0 /\ y % 100 # 0) \/ y % 400 = 0

DaysInMonth(y, m) ==
    IF m = 2 THEN (IF IsLeap(y) THEN 29 ELSE 28)
    ELSE IF m \in {4, 6, 9, 11} THEN 30 ELSE 31

\* the parsed date <<year, month, day>>, or ValueError
strptime(s) ==
    LET parts == Split(s, "-")
    IN  IF Len(parts) # 3 THEN Raised("ValueError")
        ELSE IF ~(YearField(parts[1]) /\ MonthField(parts[2]) /\ DayField(parts[3]))
             THEN Raised("ValueError")
        ELSE IF NumVal(parts[1]) < 1 THEN Raised("ValueError")
        ELSE IF DayVal(parts[3]) > DaysInMonth(NumVal(parts[1]), NumVal(parts[2]))
             THEN Raised("ValueError")
        ELSE Returned(<<NumVal(parts[1]), NumVal(parts[2]), DayVal(parts[3])>>)

\* datetime.__lt__
DateLess(a, b) ==
    \/ a[1] < b[1]
    \/ a[1] = b[1] /\ a[2] < b[2]
    \/ a[1] = b[1] /\ a[2] = b[2] /\ a[3] < b[3]

\* the order check of line 33 left out: every pair of well-formed dates passes
DateOrderAccepted_Unchecked(start, end) == TRUE

\* line 33 negated: the pair of well-formed dates passes the order check
DateOrderAccepted(start, end) == ~DateLess(strptime(end).val, strptime(start).val)

-----------------------------------------------------------------------------
(* read_components_with_config *)

\* lines 157-170 for one kept line
ParseLine(line) ==
    IF IndexOf(line, ":") > 0
    THEN [name |-> Strip(SubSeq(line, 1, IndexOf(line, ":") - 1)),
          search_terms |->
              LET terms == Split(SubSeq(line, IndexOf(line, ":") + 1, Len(line)), ",")
              IN  [i \in DOMAIN terms |-> Strip(terms[i])]]
    ELSE [name |-> line, search_terms |-> get_component_aliases(line)]

\* lines 152-153: strip every line, drop the empty ones and the comments
RECURSIVE KeptLines(_)
KeptLines(lines) ==
    IF lines = <<>> THEN <<>>
    ELSE LET line == Strip(Head(lines))
         IN  IF line # <<>> /\ line[1] # "#"
             THEN <<line>> \o KeptLines(Tail(lines))
             ELSE KeptLines(Tail(lines))

\* file = [exists, lines]; a file that cannot be opened yields []
read_components_with_config(file) ==
    IF ~file.exists THEN <<>>
    ELSE LET lines == KeptLines(file.lines)
         IN  [i \in DOMAIN lines |-> ParseLine(lines[i])]

-----------------------------------------------------------------------------
(* fetch_cve_data *)

\* line 191
PrimarySearchTerm(component) ==
    LET search_terms == get_component_aliases(component)
    IN  IF Len(search_terms) > 1 THEN search_terms[2] ELSE search_terms[1]

\* Response.raise_for_status() raises HTTPError
RaisesForStatus(status) == status >= 400 /\ status < 600

\* lines 227-263 once requests.get has returned or raised.  response =
\* [fault, status, encoding, wellformed, json]: fault is a network-level
\* exception of requests.get; encoding "br" decompresses, "utf8" falls back to
\* the direct decode, "binary" fails both; json is what json.loads returns for
\* a well-formed body.  The result is the dict, or JNull for None.
FetchResult(component, response) ==
    IF response.fault THEN JNull
    ELSE IF response.encoding = "binary" THEN JNull
    ELSE IF RaisesForStatus(response.status) THEN JNull
    ELSE IF ~response.wellformed THEN JNull
    ELSE IF response.json.t # "obj" THEN JNull
    ELSE DictSet(response.json, K_component, JStr(component))

\* line 495 with insert(0, result) in place of append(result)
AppendResult_AtFront(results, result) == <<result>> \o results

\* line 495
AppendResult(results, result) == Append(results, result)

-----------------------------------------------------------------------------
(* What the user types, what components.txt holds, what the service sends *)

MaxLines == 3

SeqUpTo(S, n) == UNION {[1..k -> S] : k \in 0..n}

\* what the user may type at a date prompt
DateInputs ==
    { <<"2", "0", "2", "4", "-", "0", "1", "-", "0", "1">>, <<"2", "0", "2", "4", "-", "0", "1", "-", "3", "1">>, <<"2", "0", "2", "4", "-", "0", "2", "-", "3", "0">>, <<"2", "0", "2", "4", "-", "1", "3", "-", "0", "1">>,
      <<"2", "0", "2", "4", "/", "0", "1", "/", "0", "1">> }

\* what the user may type at the confirmation prompt
ConfirmInputs == { <<"y">>, <<"Y">>, <<"n">> }

\* the lines components.txt may hold: a bare name with aliases in alias_map, a
\* bare name without, the configured form, a comment
LineChoices == { <<"p", "o", "i">>, <<"f", "o", "o">>, <<"f", "o", "o", ":", " ", "b", "a", "r", ",", " ", "b", "a", "z">>, <<"#", " ", "t", "r", "a", "c", "k", "e", "d">> }

ComponentFiles ==
    {[exists |-> FALSE, lines |-> <<>>]}
    \cup {[exists |-> TRUE, lines |-> l] : l \in SeqUpTo(LineChoices, MaxLines)}

Record(id, published, description) ==
    JObj(<< <<K_id, JStr(id)>>, <<K_published, JStr(published)>>,
            <<K_description, JStr(description)>>,
            <<K_references, JList(<<JStr(<<"r", "e", "f">>)>>)>> >>)

\* names poi and foo as whole words
RecWord == Record(<<"C", "V", "E", "-", "1">>, <<"2", "0", "2", "4", "-", "0", "1", "-", "2", "0", "T", "0", "8">>,
                  <<"P", "O", "I", ",", " ", "f", "o", "o", ":", " ", "X", "X", "E">>)

\* holds poi and foo only inside longer words
RecSubstring == Record(<<"C", "V", "E", "-", "2">>, <<"2", "0", "2", "4", "-", "0", "1", "-", "1", "2", "T", "0", "8">>,
                       <<"s", "p", "o", "i", "l", "e", "d", " ", "f", "o", "o", "d">>)

\* markup and a line break around the names
RecMarkup == Record(<<"C", "V", "E", "-", "3">>, <<"2", "0", "2", "4", "-", "0", "1", "-", "0", "5", "T", "0", "8">>,
                    <<"<", "b", ">", "f", "o", "o", "<", "/", "b", ">", "\n", " ", " ", "p", "o", "i">>)

Body(status, encoding, wellformed, json) ==
    [fault |-> FALSE, status |-> status, encoding |-> encoding,
     wellformed |-> wellformed, json |-> json]

Results(records) == JObj(<< <<K_results, JList(records)>> >>)

\* the answers of the search service
Responses ==
    << [fault |-> TRUE, status |-> 0, encoding |-> "utf8", wellformed |-> FALSE,
        json |-> JNull],
       Body(500, "utf8", TRUE, Results(<<>>)),
       Body(200, "binary", FALSE, JNull),
       Body(200, "br", FALSE, JNull),
       Body(200, "utf8", TRUE, JList(<<RecWord>>)),
       Body(200, "br", TRUE, JObj(<<>>)),
       Body(200, "utf8", TRUE, Results(<<>>)),
       Body(200, "br", TRUE, Results(<<RecWord, RecSubstring, RecMarkup>>)) >>

\* whether the body has the shape the service documents: an object whose
\* 'results' is a list of objects with str 'id', 'published', 'description'
WellShaped(json) ==
    /\ json.t = "obj"
    /\ DictHas(json, K_results)
    /\ DictItem(json, K_results).t = "list"
    /\ \A i \in DOMAIN DictItem(json, K_results).v :
          LET r == DictItem(json, K_results).v[i]
          IN  /\ r.t = "obj"
              /\ \A k \in {K_id, K_published, K_description} :
                    DictHas(r, k) /\ DictItem(r, k).t = "str"

-----------------------------------------------------------------------------
(* main *)

Init ==
    /\ pc = "ask_start"
    /\ start_date = <<>>
    /\ end_date = <<>>
    /\ components = <<>>
    /\ idx = 1
    /\ server = "none"
    /\ requests = <<>>
    /\ all_results = <<>>
    /\ log = <<>>
    /\ processed_data = <<>>
    /\ rows = <<>>
    /\ merges = <<>>
    /\ err = ""
    /\ input = <<>>
    /\ output = <<>>

\* get_date_input, lines 25-26: the start date is read and parsed
InputStartDate ==
    /\ pc = "ask_start"
    /\ \E s \in DateInputs :
          IF strptime(s).exc # ""
          THEN pc' = "date_format_error" /\ UNCHANGED start_date
          ELSE pc' = "ask_end" /\ start_date' = s
    /\ UNCHANGED <<end_date, components, idx, server, requests, all_results, log,
                   processed_data, rows, merges, err, input, output>>

\* get_date_input, lines 29-37: the end date is read, parsed and compared
InputEndDate ==
    /\ pc = "ask_end"
    /\ \E e \in DateInputs :
          IF strptime(e).exc # ""
          THEN pc' = "date_format_error" /\ UNCHANGED end_date
          ELSE IF ~DateOrderAccepted(start_date, e)
               THEN pc' = "date_order_error" /\ UNCHANGED end_date
               ELSE pc' = "read_components" /\ end_date' = e
    /\ UNCHANGED <<start_date, components, idx, server, requests, all_results, log,
                   processed_data, rows, merges, err, input, output>>

\* get_date_input, lines 34-35 and 40-41: the error is printed and the loop
\* starts over
DateInputRetry ==
    /\ pc \in {"date_format_error", "date_order_error"}
    /\ pc' = "ask_start"
    /\ start_date' = <<>>
    /\ UNCHANGED <<end_date, components, idx, server, requests, all_results, log,
                   processed_data, rows, merges, err, input, output>>

\* main, lines 474-480
ReadComponents ==
    /\ pc = "read_components"
    /\ \E file \in ComponentFiles :
          /\ components' = read_components_with_config(file)
          /\ pc' = IF components' = <<>> THEN "no_components" ELSE "confirm"
    /\ UNCHANGED <<start_date, end_date, idx, server, requests, all_results, log,
                   processed_data, rows, merges, err, input, output>>

\* main, lines 483-489
Confirm ==
    /\ pc = "confirm"
    /\ \E answer \in ConfirmInputs :
          pc' = IF Lower(answer) # <<"y">> THEN "cancelled" ELSE "loop"
    /\ UNCHANGED <<start_date, end_date, components, idx, server, requests,
                   all_results, log, processed_data, rows, merges, err, input, output>>

\* main, line 493, and fetch_cve_data up to the call of requests.get (line
\* 227), which is given no timeout: it returns when the service answers
IssueFetch ==
    /\ pc = "loop"
    /\ idx <= Len(components)
    /\ requests' = Append(requests, PrimarySearchTerm(components[idx].name))
    /\ server' \in {"answers", "silent"}
    /\ pc' = "await"
    /\ UNCHANGED <<start_date, end_date, components, idx, all_results, log,
                   processed_data, rows, merges, err, input, output>>

\* fetch_cve_data from the return of requests.get on, and main, lines 494-498,
\* the service answering with one of `answers`
FetchReturnFrom(answers) ==
    /\ pc = "await"
    /\ server = "answers"
    /\ \E r \in DOMAIN answers :
          LET result == FetchResult(components[idx].name, answers[r])
          IN  IF Truthy(result)
              THEN /\ all_results' = AppendResult(all_results, result)
                   /\ log' = Append(log, [component |-> components[idx].name,
                                          ok |-> TRUE])
              ELSE /\ UNCHANGED all_results
                   /\ log' = Append(log, [component |-> components[idx].name,
                                          ok |-> FALSE])
    /\ idx' = idx + 1
    /\ server' = "none"
    /\ pc' = "loop"
    /\ UNCHANGED <<start_date, end_date, components, requests, processed_data,
                   rows, merges, err, input, output>>

FetchReturn == FetchReturnFrom(Responses)

\* main, lines 500-506
ProcessData ==
    /\ pc = "loop"
    /\ idx > Len(components)
    /\ IF all_results = <<>>
       THEN pc' = "no_data" /\ UNCHANGED <<processed_data, err>>
       ELSE LET processed == process_cve_data(all_results)
            IN  IF processed.exc # ""
                THEN pc' = "crashed" /\ err' = processed.exc /\ UNCHANGED processed_data
                ELSE pc' = "convert" /\ processed_data' = processed.val /\ UNCHANGED err
    /\ UNCHANGED <<start_date, end_date, components, idx, server, requests,
                   all_results, log, rows, merges, input, output>>

\* main, line 507: convert_to_excel
ConvertToExcel ==
    /\ pc = "convert"
    /\ rows' = FlattenRows(processed_data)
    /\ IF rows' = <<>>
       THEN pc' = "no_rows" /\ UNCHANGED merges
       ELSE pc' = "saved" /\ merges' = merge_component_cells(rows', Len(rows'))
    /\ UNCHANGED <<start_date, end_date, components, idx, server, requests,
                   all_results, log, processed_data, err, input, output>>

Next ==
    \/ InputStartDate
    \/ InputEndDate
    \/ DateInputRetry
    \/ ReadComponents
    \/ Confirm
    \/ IssueFetch
    \/ FetchReturn
    \/ ProcessData
    \/ ConvertToExcel

Spec == Init /\ [][Next]_vars

-----------------------------------------------------------------------------
(* The fetch loop and the report steps against every payload shape: the run *)
(* starts where main enters its loop, with dates and components it can hold *)

RecNoId ==
    JObj(<< <<K_published, JStr(<<"2", "0", "2", "4", "-", "0", "1", "-", "0", "2", "T", "0", "8">>)>>,
            <<K_description, JStr(<<"p", "o", "i", " ", "f", "o", "o">>)>> >>)

RecNoPublished ==
    JObj(<< <<K_id, JStr(<<"C", "V", "E", "-", "5">>)>>, <<K_description, JStr(<<"p", "o", "i", " ", "f", "o", "o">>)>> >>)

\* no 'description'; relevant through its references
RecNoDescription ==
    JObj(<< <<K_id, JStr(<<"C", "V", "E", "-", "6">>)>>, <<K_published, JStr(<<"2", "0", "2", "4", "-", "0", "1", "-", "0", "2", "T", "0", "8">>)>>,
            <<K_references, JList(<<JStr(<<"p", "o", "i">>), JStr(<<"f", "o", "o">>)>>)>> >>)

RecNumDescription ==
    JObj(<< <<K_id, JStr(<<"C", "V", "E", "-", "4">>)>>, <<K_published, JStr(<<"2", "0", "2", "4", "-", "0", "1", "-", "0", "2", "T", "0", "8">>)>>,
            <<K_description, JNum(7)>> >>)

RecNullDescription ==
    JObj(<< <<K_id, JStr(<<"p", "o", "i", " ", "f", "o", "o">>)>>, <<K_published, JStr(<<"2", "0", "2", "4", "-", "0", "1", "-", "0", "2", "T", "0", "8">>)>>,
            <<K_description, JNull>> >>)

RecNumId ==
    JObj(<< <<K_id, JNum(7)>>, <<K_published, JStr(<<"2", "0", "2", "4", "-", "0", "1", "-", "0", "2", "T", "0", "8">>)>>,
            <<K_description, JStr(<<"p", "o", "i", " ", "f", "o", "o">>)>> >>)

RecNumPublished ==
    JObj(<< <<K_id, JStr(<<"C", "V", "E", "-", "7">>)>>, <<K_published, JNum(20240102)>>,
            <<K_description, JStr(<<"p", "o", "i", " ", "f", "o", "o">>)>> >>)

RecNumReferences ==
    JObj(<< <<K_id, JStr(<<"C", "V", "E", "-", "8">>)>>, <<K_published, JStr(<<"2", "0", "2", "4", "-", "0", "1", "-", "0", "2", "T", "0", "8">>)>>,
            <<K_description, JStr(<<"p", "o", "i", " ", "f", "o", "o">>)>>, <<K_references, JNum(5)>> >>)

ShapeResponses ==
    << Body(200, "utf8", FALSE, JNull),
       Body(200, "utf8", TRUE, JList(<<RecWord>>)),
       Body(200, "utf8", TRUE, JStr(<<"r", "e", "s", "u", "l", "t", "s">>)),
       Body(200, "utf8", TRUE, JNull),
       Body(200, "utf8", TRUE, JObj(<<>>)),
       Body(200, "utf8", TRUE, JObj(<< <<K_results, JNull>> >>)),
       Body(200, "utf8", TRUE, JObj(<< <<K_results, JNum(3)>> >>)),
       Body(200, "utf8", TRUE, JObj(<< <<K_results, JStr(<<"a", "b">>)>> >>)),
       Body(200, "utf8", TRUE, JObj(<< <<K_results, JStr(<<>>)>> >>)),
       Body(200, "utf8", TRUE, JObj(<< <<K_results, RecWord>> >>)),
       Body(200, "utf8", TRUE, Results(<<JNum(5)>>)),
       Body(200, "utf8", TRUE, Results(<<RecWord, RecSubstring>>)),
       Body(200, "utf8", TRUE, Results(<<RecNoId>>)),
       Body(200, "utf8", TRUE, Results(<<RecNoPublished>>)),
       Body(200, "utf8", TRUE, Results(<<RecNoDescription>>)),
       Body(200, "utf8", TRUE, Results(<<RecNumDescription>>)),
       Body(200, "utf8", TRUE, Results(<<RecNullDescription>>)),
       Body(200, "utf8", TRUE, Results(<<RecNumId>>)),
       Body(200, "utf8", TRUE, Results(<<RecNumPublished>>)),
       Body(200, "utf8", TRUE, Results(<<RecNumReferences>>)) >>

MaxShapeLines == 2

InitShape ==
    /\ pc = "loop"
    /\ start_date = <<"2", "0", "2", "4", "-", "0", "1", "-", "0", "1">>
    /\ end_date = <<"2", "0", "2", "4", "-", "0", "1", "-", "3", "1">>
    /\ \E l \in SeqUpTo({<<"p", "o", "i">>, <<"f", "o", "o">>}, MaxShapeLines) :
          /\ l # <<>>
          /\ components = read_components_with_config([exists |-> TRUE, lines |-> l])
    /\ idx = 1
    /\ server = "none"
    /\ requests = <<>>
    /\ all_results = <<>>
    /\ log = <<>>
    /\ processed_data = <<>>
    /\ rows = <<>>
    /\ merges = <<>>
    /\ err = ""
    /\ input = <<>>
    /\ output = <<>>

FetchReturnShape == FetchReturnFrom(ShapeResponses)

NextShape ==
    \/ IssueFetch
    \/ FetchReturnShape
    \/ ProcessData
    \/ ConvertToExcel

SpecShape == InitShape /\ [][NextShape]_vars

-----------------------------------------------------------------------------
(* Functions applied on their own: input holds the arguments, output the   *)
(* values returned so far; main does not run                                *)

MainNotRunning ==
    /\ pc = "fn"
    /\ start_date = <<>>
    /\ end_date = <<>>
    /\ components = <<>>
    /\ idx = 1
    /\ server = "none"
    /\ requests = <<>>
    /\ all_results = <<>>
    /\ log = <<>>
    /\ processed_data = <<>>
    /\ rows = <<>>
    /\ merges = <<>>
    /\ err = ""

mainVars == <<pc, start_date, end_date, components, idx, server, requests,
              all_results, log, processed_data, rows, merges, err>>

(* clean_description, applied to a text and then to its own result *)

MaxText == 4

CleanAlphabet == {"<", ">", "\n", " ", "a"}

InitClean ==
    /\ MainNotRunning
    /\ input \in SeqUpTo(CleanAlphabet, MaxText)
    /\ output = <<>>

ApplyCleanDescription ==
    /\ Len(output) < 2
    /\ output' = Append(output, clean_description(IF output = <<>> THEN input
                                                  ELSE output[Len(output)]))
    /\ UNCHANGED <<mainVars, input>>

NextClean == ApplyCleanDescription

SpecClean == InitClean /\ [][NextClean]_vars

(* validate_cve_relevance, applied to one record and one component name *)

MaxPieces == 3

\* the pieces a field text is put together from
TextPieces ==
    { <<"g", "o">>, <<"G", "o">>, <<"m", "o", "n">>, <<"c", "+", "+">>, <<".", "n", "e", "t">>, <<"p", "o", "i">>,
      <<"a", "p", "a", "c", "h", "e", " ">>, <<" ">>, <<"-">> }

RECURSIVE Concat(_)
Concat(parts) == IF parts = <<>> THEN <<>> ELSE Head(parts) \o Concat(Tail(parts))

FieldTexts == {Concat(p) : p \in SeqUpTo(TextPieces, MaxPieces)}

ComponentNames == { <<"g", "o">>, <<"c", "+", "+">>, <<".", "n", "e", "t">>, <<"P", "O", "I">> }

\* the record with `text` in one of the three fields and nothing naming a
\* component in the other two
RecordWith(field, text) ==
    JObj(<< <<K_id, JStr(IF field = "id" THEN text ELSE <<"C", "V", "E", "-", "1">>)>>,
            <<K_published, JStr(<<"2", "0", "2", "4", "-", "0", "1", "-", "0", "2", "T", "0", "8">>)>>,
            <<K_description, JStr(IF field = "description" THEN text ELSE <<>>)>>,
            <<K_references,
              JList(IF field = "references" THEN <<JStr(<<"r", "e", "f">>), JStr(text)>>
                    ELSE <<>>)>> >>)

InitRelevance ==
    /\ MainNotRunning
    /\ \E field \in {"description", "id", "references"}, text \in FieldTexts,
          name \in ComponentNames :
          input = [field |-> field, text |-> text,
                   cve |-> RecordWith(field, text), component |-> name]
    /\ output = <<>>

ApplyValidateCveRelevance ==
    /\ output = <<>>
    /\ output' = <<validate_cve_relevance(input.cve, input.component)>>
    /\ UNCHANGED <<mainVars, input>>

NextRelevance == ApplyValidateCveRelevance

SpecRelevance == InitRelevance /\ [][NextRelevance]_vars

(* merge_component_cells, applied to a sheet of data_length rows *)

MaxRows == 4

SheetRow(component) ==
    [component |-> component, id |-> JStr(<<"C", "V", "E", "-", "1">>),
     published |-> <<"2", "0", "2", "4", "-", "0", "1", "-", "0", "2">>, description |-> <<"x">>]

InitMerge ==
    /\ MainNotRunning
    /\ \E names \in SeqUpTo({<<"p", "o", "i">>, <<"f", "o", "o">>, <<"b", "a", "r">>}, MaxRows) :
          input = [i \in DOMAIN names |-> SheetRow(names[i])]
    /\ output = <<>>

ApplyMergeComponentCells ==
    /\ output = <<>>
    /\ output' = <<merge_component_cells(input, Len(input))>>
    /\ UNCHANGED <<mainVars, input>>

NextMerge == ApplyMergeComponentCells

SpecMerge == InitMerge /\ [][NextMerge]_vars

-----------------------------------------------------------------------------
(* Properties *)

\* the run has ended: main returned or an exception left it
Terminal == {"no_components", "cancelled", "no_data", "crashed", "no_rows", "saved"}

\* the fetch loop is over
AfterLoop == {"no_data", "crashed", "convert", "no_rows", "saved"}

RECURSIVE IsSubsequence(_, _)
IsSubsequence(s, t) ==
    IF s = <<>> THEN TRUE
    ELSE IF t = <<>> THEN FALSE
    ELSE IF Head(s) = Head(t) THEN IsSubsequence(Tail(s), Tail(t))
    ELSE IsSubsequence(s, Tail(t))

(* C1 *)

\* the rows a sheet of n data rows holds
SheetRows(n) == FirstDataRow..(n + 1)

\* the merge runs of a sheet of n rows: the merged ranges, and every row no
\* merged range covers as a run of its own
MergeRuns(merged, n) ==
    Range(merged)
    \cup {<<r, r>> : r \in {x \in SheetRows(n) :
                               \A k \in DOMAIN merged : x < merged[k][1] \/ x > merged[k][2]}}

\* C1: for every sequence of rows handed to merge_component_cells the merge
\* runs partition the rows exactly (every row in exactly one run, runs
\* contiguous and in row order), every row of a run has the run's component,
\* and the runs are maximal: two neighbouring rows with the same component,
\* the last two rows included, lie in the same run.
C1_MergeRunsPartitionMaximal ==
    output # <<>> =>
        LET n == Len(input)
            merged == output[1]
            runs == MergeRuns(merged, n)
            RunOf(r) == {run \in runs : run[1] <= r /\ r <= run[2]}
        IN  /\ \A run \in runs : run[1] \in SheetRows(n) /\ run[2] \in SheetRows(n)
                                 /\ run[1] <= run[2]
            /\ \A r \in SheetRows(n) : Cardinality(RunOf(r)) = 1
            /\ \A j, k \in DOMAIN merged : j < k => merged[j][2] < merged[k][1]
            /\ \A run \in runs : \A r \in run[1]..run[2] :
                  CellA(input, r) = CellA(input, run[1])
            /\ \A r \in SheetRows(n) \ {n + 1} :
                  CellA(input, r) = CellA(input, r + 1) => RunOf(r) = RunOf(r + 1)

(* C2 *)

\* the components of the successful entries of a log, in order
RECURSIVE Successes(_)
Successes(entries) ==
    IF entries = <<>> THEN <<>>
    ELSE (IF Head(entries).ok THEN <<Head(entries).component>> ELSE <<>>)
         \o Successes(Tail(entries))

\* C2: the fetch loop yields exactly one outcome (success or failure) per
\* input component, the i-th outcome being the i-th component's whatever the
\* fetches returned; the next request is issued only when the previous one
\* has resolved; all_results holds the successes among them, in input order.
C2_OneOutcomePerComponentInOrder ==
    /\ Len(log) = idx - 1
    /\ idx <= Len(components) + 1
    /\ pc \in AfterLoop => Len(log) = Len(components)
    /\ \A i \in DOMAIN log : log[i].component = components[i].name
    /\ Len(requests) = Len(log) + (IF pc = "await" THEN 1 ELSE 0)
    /\ [i \in DOMAIN all_results |-> DictItem(all_results[i], K_component).v]
           = Successes(log)

\* three components were fetched, the first failed and the later two succeeded
C2_Witness ==
    /\ pc \in AfterLoop
    /\ Len(log) = 3
    /\ ~log[1].ok /\ log[2].ok /\ log[3].ok
    /\ log[2].component # log[3].component

(* C3 *)

\* C3: a payload that deviates from the expected shape makes its component's
\* fetch a failure, so every element of all_results is well shaped, and no
\* later step ends the run with an unhandled exception.
C3_ShapeDeviationIsFailure ==
    /\ \A i \in DOMAIN all_results : WellShaped(all_results[i])
    /\ pc # "crashed"

(* C4 *)

\* C4: a fetch whose service never answers does not block the run: as long as
\* main has not ended, it can take a step.
C4_SilentServerDoesNotBlock == pc \in Terminal \/ ENABLED Next

(* C5 *)

\* C5: no fetch is issued before the configuration is validated: whenever a
\* request has been issued both dates are well formed, the end is not before
\* the start and the component list is not empty; a bad date or an empty list
\* is reported while no request has been issued, and a run with an empty
\* list has ended there.
C5_ConfigValidatedBeforeFetch ==
    /\ requests # <<>> =>
          /\ strptime(start_date).exc = "" /\ strptime(end_date).exc = ""
          /\ ~DateLess(strptime(end_date).val, strptime(start_date).val)
          /\ components # <<>>
    /\ pc \in {"date_format_error", "date_order_error", "no_components"} =>
          requests = <<>>
    /\ pc = "no_components" => components = <<>> /\ ~ENABLED Next

\* a request is in flight for a range that starts and ends on different days
C5_Witness ==
    /\ pc = "await"
    /\ Len(requests) = 1
    /\ start_date # end_date

(* C6 *)

\* an occurrence of word in text bounded on both sides by a non-word
\* character or an end of the text
StandaloneIn(text, word) ==
    \E i \in 1..(Len(text) - Len(word) + 1) :
        /\ SubSeq(text, i, i + Len(word) - 1) = word
        /\ ~IsWordAt(text, i - 1)
        /\ ~IsWordAt(text, i + Len(word))

\* every occurrence of word in text continues a longer word: a word character
\* of the name touches a word character outside it
OnlyInsideLongerWords(text, word) ==
    \A i \in 1..(Len(text) - Len(word) + 1) :
        SubSeq(text, i, i + Len(word) - 1) = word =>
            \/ IsWordChar(word[1]) /\ IsWordAt(text, i - 1)
            \/ IsWordChar(word[Len(word)]) /\ IsWordAt(text, i + Len(word))

\* the three texts validate_cve_relevance looks at
CheckedTexts(rec) ==
    { DictItem(rec, K_description).v, DictItem(rec, K_id).v,
      JoinSpace([i \in DOMAIN DictItem(rec, K_references).v |->
                     DictItem(rec, K_references).v[i].v]) }

\* C6: validate_cve_relevance returns False when the name and all its aliases
\* occur in the three fields only inside longer words, and True when the name
\* occurs in one of them, case-insensitively, as a standalone word; for every
\* name, those that begin or end with a non-word character included.
C6_WholeWordRelevance ==
    output # <<>> =>
        LET names == get_component_aliases(input.component)
            texts == CheckedTexts(input.cve)
        IN  /\ output[1].exc = ""
            /\ (\A t \in texts : \A k \in DOMAIN names :
                    OnlyInsideLongerWords(Lower(t), Lower(names[k])))
                  => output[1].val = FALSE
            /\ (\E t \in texts : StandaloneIn(Lower(t), Lower(input.component)))
                  => output[1].val = TRUE

(* C7 *)

\* C7: clean_description(clean_description(s)) = clean_description(s) for
\* every s, a newline between '<' and '>' included.
C7_CleanDescriptionIdempotent == Len(output) = 2 => output[2] = output[1]

(* C8 *)

\* C8: every component read_components_with_config produced, from either
\* line syntax, has a non-empty search_terms that contains its name.
C8_SearchTermsHoldName ==
    \A i \in DOMAIN components :
        /\ components[i].search_terms # <<>>
        /\ \E t \in DOMAIN components[i].search_terms :
              components[i].search_terms[t] = components[i].name

(* C9 *)

\* the (component, id) of every record of the successful fetches, in input
\* order and, within a fetch, in the order the service returned them
RECURSIVE ServiceOrder(_)
ServiceOrder(results) ==
    IF results = <<>> THEN <<>>
    ELSE LET records == DictItem(Head(results), K_results).v
         IN  [i \in DOMAIN records |->
                  <<DictItem(Head(results), K_component).v, DictItem(records[i], K_id)>>]
             \o ServiceOrder(Tail(results))

\* C9: in the flattened rows all rows with the same component are contiguous,
\* also when a component is listed more than once, and the rows follow the
\* input order of the components and the service's order of the records.
C9_RowsGroupedInInputOrder ==
    pc \in {"saved", "no_rows"} =>
        /\ \A i, j, k \in DOMAIN rows :
              (i < j /\ j < k /\ rows[i].component = rows[k].component)
                  => rows[j].component = rows[i].component
        /\ IsSubsequence([i \in DOMAIN rows |-> <<rows[i].component, rows[i].id>>],
                         ServiceOrder(all_results))

(* C10 *)

\* C10: the keyword of every request is one of the search_terms of the
\* component it is issued for: an alias when the component has one, its bare
\* name otherwise; also for aliases given in the component list.
C10_KeywordFromSearchTerms ==
    \A i \in DOMAIN requests :
        LET terms == components[i].search_terms
            aliases == {t \in DOMAIN terms : terms[t] # components[i].name}
        IN  /\ \E t \in DOMAIN terms : terms[t] = requests[i]
            /\ aliases # {} => requests[i] # components[i].name
            /\ aliases = {} => requests[i] = components[i].name

=============================================================================
